---------------------------- MODULE Spec2Model ----------------------------
(***************************************************************************)
(* State-machine model of the Lumagen integration's device session.        *)
(*                                                                         *)
(* The repository holds two generations of the session class:              *)
(*   device.py   LumagenDevice (imported by driver.py, remote.py,          *)
(*               setup_flow.py)                                            *)
(*   lumagen.py  LumagenDevice (imported by media_player.py, registry.py,  *)
(*               discover.py)                                              *)
(* One session object is modelled; `variant` says which class it is an     *)
(* instance of and is fixed at construction.                               *)
(*                                                                         *)
(* The Transport (pylumagen's DeviceManager, its executor and dispatcher)  *)
(* is outside the repository.  It is modelled as an environment: `link`    *)
(* is the state of its connection, open()/close()/executor calls complete  *)
(* in their own steps with every outcome the adapter contract allows, and  *)
(* the notifications it emits wait in FIFO queues until the event loop     *)
(* runs the session's handler for them.                                    *)
(***************************************************************************)
EXTENDS Naturals, Integers, Sequences, FiniteSets, TLC

\* ------------------------------------------------------------------ bounds
MaxCalls == 2       \* API calls of the session that may be in flight at once
MaxNotif == 1       \* connection-state notifications waiting for their handler
MaxTasks == 2       \* attribute-notification tasks waiting on the event loop
MaxEvents == 2      \* emitted session events waiting for the driver's listener
MaxRefresh == 1     \* CONNECTED handlers suspended in their settle delay
MaxSessions == 2    \* session objects constructed over a run

\* ------------------------------------------------------------- value sets
Variants == {"device", "lumagen"}
None == "None"
PowerStates == {"unknown", "Active", "Standby"}          \* PowerStateEnum values
States == {"OFF", "ON", "STANDBY", "UNKNOWN", "UNAVAILABLE"} \* ucapi media_player.States
ConnectionStatus == {"CONNECTED", "DISCONNECTED"}
StatusCodes == {"OK", "BAD_REQUEST", "NOT_FOUND", "NOT_IMPLEMENTED", "SERVICE_UNAVAILABLE"}
CallIds == 1..MaxCalls

\* The label lists the Transport may hold (device.source_list), and the names a
\* caller may pass to select_source: members, a non-member and the empty string.
SourceLists == {<<>>, <<"HDMI1", "HDMI2">>, <<"HDMI2", "AppleTV">>}
SourceNames == {None, "", "HDMI1", "HDMI2", "AppleTV", "Bogus"}
\* Values a device_status notification may carry: the three enum values and one
\* string that is no PowerStateEnum member.
StatusValues == {"Active", "Standby", "unknown", "Booting"}
\* Values a physical_input_selected notification may carry, and int() of them.
InputValues == {"0", "1", "2", "3", "x"}
IntOf == [v \in {"0", "1", "2", "3"} |->
            CASE v = "0" -> 0 [] v = "1" -> 1 [] v = "2" -> 2 [] v = "3" -> 3]

VARIABLES
    variant,            \* which LumagenDevice class the session is
    discovery,          \* constructor argument `discovery`
    _connected,         \* self._connected
    _disconnecting,     \* self._disconnecting
    _is_alive,          \* self._is_alive
    _attr_state,        \* self._attr_state
    current_status,     \* self.current_status
    _source_list,       \* self._source_list
    _active_source,     \* self._active_source
    link,               \* Transport: "up" when its connection is open
    device_source_list, \* Transport: self.device.source_list
    notifQ,             \* Transport: CONNECTION_STATE notifications not yet handled
    taskQ,              \* event loop: attribute-notification tasks not yet run
    refreshing,         \* CONNECTED handlers sleeping before their label fetch
    last_op,            \* Transport: the last executor operation it was handed
    evQ,                \* events emitted on self.events, not yet seen by the driver
    api_device_state,   \* driver: the state last given to api.set_device_state
    remote_state,       \* driver: attributes[STATE] of the configured remote entity
    api_update,         \* driver: what its last listener run published, if anything
    calls,              \* the session's API calls: position, result, counters
    registry,           \* registry: the entries of _configured_lumagens, in order
    configured,         \* driver: the entities in api.configured_entities
    available,          \* driver: the entities in api.available_entities
    created,            \* how many session objects have been constructed
    listeners,          \* the session objects whose events the driver listens to
    removal,            \* driver: how the last on_device_removed ended
    unsub,              \* driver: the on_unsubscribe_entities in progress
    walk                \* registry: the connect_all / disconnect_all in progress

sessionVars == <<_connected, _disconnecting, _is_alive, _attr_state,
                 current_status, _source_list, _active_source>>
transportVars == <<link, device_source_list, notifQ, taskQ, refreshing, last_op>>
registryVars == <<registry, configured, available, created, listeners, removal,
                  unsub, walk>>
vars == <<variant, discovery, sessionVars, transportVars, evQ,
          api_device_state, remote_state, api_update, calls, registryVars>>

\* A call slot that holds no call.  `arg` is the call's argument (select_source,
\* command) or the power state it read (power_on, power_off, power_toggle);
\* `res` what it returned.
NoCall == [op |-> "none", pc |-> "idle", arg |-> None, res |-> None,
           opens |-> 0, closes |-> 0, sends |-> 0]
\* No executor operation yet; an operation without an input number has arg -1.
NoOp == [name |-> "none", arg |-> -1]

\* A slot can take a new call when it is free or its last call has ended.
Free(c) == calls[c].pc \in {"idle", "done", "raised"}
\* Slots are interchangeable: a new call takes the lowest free one.
Take(c) == Free(c) /\ \A d \in CallIds : d < c => ~Free(d)

NewCall(name, a) == [NoCall EXCEPT !.op = name, !.arg = a]

\* Slot c takes a call whose record is `rec`.  The results of earlier calls
\* that have ended are dropped: a result is kept until the next call starts.
Begin(c, rec) ==
    [d \in CallIds |-> IF d = c THEN rec
                       ELSE IF Free(d) THEN NoCall ELSE calls[d]]

\* self.events.emit(...): pyee schedules the driver's coroutine listener, if
\* the session (the first object constructed) still has its listeners.
Emit(q, evs) == IF 1 \in listeners THEN q \o evs ELSE q

\* The device ids of the configuration; the modelled session is the one of
\* ThisDevice, the first session object constructed.
DeviceIds == {"d1", "d2"}
ThisDevice == "d1"
\* The entities of a device that the driver looks at by kind.
EntityKinds == {"media_player", "remote"}
Entities == [kind : EntityKinds, dev : DeviceIds]
EntitiesOf(device_id) == {e \in Entities : e.dev = device_id}
\* The entity api.configured_entities holds under f"{kind}.{device_id}".
EntityId(kind, device_id) == [kind |-> kind, dev |-> device_id]

\* No on_device_removed has run.
NoRemoval == [device |-> None, ended |-> "none"]
\* No on_unsubscribe_entities / no connect_all or disconnect_all in progress.
NoUnsub == [pc |-> "idle", ids |-> {}, cfg |-> {}, reg |-> {}, todo |-> <<>>,
            slot |-> 0, closed |-> {}, unheard |-> {}]
NoWalk == [pc |-> "idle", op |-> "none", di_used |-> 0, len |-> 0, di_pos |-> 1,
           at |-> 0, slot |-> 0, start |-> {}, visited |-> {}, error |-> None]

\* ---------------------------------------------------------------- __init__
\* main() has configured the device: its session is registered; the remote
\* has subscribed to its entities.
Init ==
    /\ registry = <<[id |-> ThisDevice, obj |-> 1, live |-> TRUE]>>
    /\ configured = EntitiesOf(ThisDevice)
    /\ available = EntitiesOf(ThisDevice)
    /\ created = 1
    /\ listeners = {1}
    /\ removal = NoRemoval
    /\ unsub = NoUnsub
    /\ walk = NoWalk
    /\ variant \in Variants
    \* device.py reads `discovery` only to choose a log label
    /\ discovery \in (IF variant = "lumagen" THEN BOOLEAN ELSE {FALSE})
    /\ _connected = FALSE
    /\ _disconnecting = FALSE
    /\ _is_alive = FALSE
    /\ _attr_state = "OFF"
    /\ current_status = "unknown"
    /\ _source_list = <<>>
    /\ _active_source = None
    /\ link = "down"
    /\ device_source_list = <<>>
    /\ notifQ = <<>>
    /\ taskQ = <<>>
    /\ refreshing = 0
    /\ last_op = NoOp
    /\ evQ = <<>>
    /\ api_device_state = "DISCONNECTED"
    /\ remote_state = "UNKNOWN"
    /\ api_update = None
    /\ calls = [c \in CallIds |-> NoCall]


\* Frames: what an action that only moves a call leaves alone.
KeepSession == UNCHANGED sessionVars
KeepDriver == UNCHANGED <<evQ, api_device_state, remote_state, api_update>>
KeepConfig == UNCHANGED <<variant, discovery, registryVars>>

\* ----------------------------------------------------------------- connect
\* connect(), up to its first suspension: the early return when already
\* connected, otherwise the call of device.open().
AlreadyConnected_Never == FALSE

\* The guard of connect(): "if self._connected: return True".
AlreadyConnected == _connected

ConnectBegins(c) ==
    /\ Take(c)
    /\ calls' = Begin(c,
          IF AlreadyConnected
          THEN [NewCall("connect", None) EXCEPT !.pc = "done", !.res = "True"]
          ELSE [NewCall("connect", None) EXCEPT !.pc = "open", !.opens = 1])
    /\ KeepSession /\ KeepDriver
    /\ UNCHANGED <<variant, discovery>>
    /\ UNCHANGED transportVars

\* connect() called by the integration's user or by a task of its own.
ConnectStart(c) == ConnectBegins(c) /\ UNCHANGED registryVars

\* The Transport establishes its connection while open() is pending and emits
\* the CONNECTION_STATE notification for it.
TransportOpens(c) ==
    /\ calls[c].pc = "open"
    /\ Len(notifQ) < MaxNotif
    /\ link' = "up"
    /\ notifQ' = Append(notifQ, "CONNECTED")
    /\ calls' = [calls EXCEPT ![c].pc = "opened"]
    /\ KeepSession /\ KeepDriver /\ KeepConfig
    /\ UNCHANGED <<device_source_list, taskQ, refreshing, last_op>>

\* The exceptions an open() can end with.  asyncio.wait_for raises TimeoutError
\* only in device.py; lumagen.py awaits open() without a timeout.
OpenErrors == IF variant = "device" THEN {"OSError", "TimeoutError"} ELSE {"OSError"}

\* A connect() that answers a failed open() by opening again.
OpenFails_Retries(c) ==
    /\ calls[c].pc = "open"
    /\ calls[c].opens < 3
    /\ calls' = [calls EXCEPT ![c].opens = calls[c].opens + 1]
    /\ KeepSession /\ KeepDriver /\ KeepConfig
    /\ UNCHANGED transportVars

\* open() raises: connect() logs and returns False.
OpenFails(c) ==
    /\ calls[c].pc = "open"
    /\ \E e \in OpenErrors :
          calls' = [calls EXCEPT ![c].pc = "done", ![c].res = "False", ![c].arg = e]
    /\ KeepSession /\ KeepDriver /\ KeepConfig
    /\ UNCHANGED transportVars

\* What connect() does when open() has returned.  device.py returns True;
\* lumagen.py clears the disconnecting guard and sleeps one second.
ConnectAfterOpen(c) ==
    IF variant = "device"
    THEN /\ calls' = [calls EXCEPT ![c].pc = "done", ![c].res = "True"]
         /\ UNCHANGED _disconnecting
    ELSE /\ calls' = [calls EXCEPT ![c].pc = "settle"]
         /\ _disconnecting' = FALSE

OpenReturns(c) ==
    /\ calls[c].pc = "opened"
    /\ ConnectAfterOpen(c)
    /\ UNCHANGED <<_connected, _is_alive, _attr_state, current_status,
                   _source_list, _active_source>>
    /\ KeepDriver /\ KeepConfig
    /\ UNCHANGED transportVars

\* lumagen.py connect() after its sleep: unless built for discovery it fetches
\* the labels, else it returns True.
ConnectSettled(c) ==
    /\ variant = "lumagen"
    /\ calls[c].pc = "settle"
    /\ IF discovery
       THEN /\ calls' = [calls EXCEPT ![c].pc = "done", ![c].res = "True"]
            /\ UNCHANGED last_op
       ELSE /\ calls' = [calls EXCEPT ![c].pc = "labels",
                                      ![c].sends = calls[c].sends + 1]
            /\ last_op' = [name |-> "get_labels", arg |-> -1]
    /\ KeepSession /\ KeepDriver /\ KeepConfig
    /\ UNCHANGED <<link, device_source_list, notifQ, taskQ, refreshing>>

\* lumagen.py connect(): the label fetch ends.  OSError/ConnectionError are
\* caught (return False); any other exception leaves connect().
LabelsReturn(c) ==
    /\ calls[c].pc = "labels"
    /\ \E outcome \in {"ok", "OSError", "Error"} :
          calls' = [calls EXCEPT
             ![c].pc = IF outcome = "Error" THEN "raised" ELSE "done",
             ![c].res = CASE outcome = "ok" -> "True"
                          [] outcome = "OSError" -> "False"
                          [] OTHER -> None]
    /\ KeepSession /\ KeepDriver /\ KeepConfig
    /\ UNCHANGED transportVars

\* -------------------------------------------------------------- disconnect
\* The guard of disconnect(): device.py closes only when connected, lumagen.py
\* unless a disconnect is already marked.
DisconnectSkips ==
    IF variant = "device" THEN ~_connected ELSE _disconnecting

\* disconnect(), up to its suspension in device.close().
DisconnectBegins(c) ==
    /\ Take(c)
    /\ IF DisconnectSkips
       THEN /\ calls' = Begin(c, [NewCall("disconnect", None) EXCEPT !.pc = "done"])
            /\ UNCHANGED _disconnecting
       ELSE /\ calls' = Begin(c, [NewCall("disconnect", None) EXCEPT
                                       !.pc = "close", !.closes = 1])
            /\ _disconnecting' = IF variant = "lumagen" THEN TRUE ELSE _disconnecting
    /\ UNCHANGED <<_connected, _is_alive, _attr_state, current_status,
                   _source_list, _active_source>>
    /\ KeepDriver
    /\ UNCHANGED <<variant, discovery>>
    /\ UNCHANGED transportVars

\* disconnect() called by the integration's user or by a task of its own.
DisconnectStart(c) == DisconnectBegins(c) /\ UNCHANGED registryVars

\* The Transport closes its connection while close() is pending; it reports
\* DISCONNECTED when there was a connection to close.
TransportCloses(c) ==
    /\ calls[c].pc = "close"
    /\ link = "up" => Len(notifQ) < MaxNotif
    /\ link' = "down"
    /\ notifQ' = IF link = "up" THEN Append(notifQ, "DISCONNECTED") ELSE notifQ
    /\ calls' = [calls EXCEPT ![c].pc = "closed"]
    /\ KeepSession /\ KeepDriver /\ KeepConfig
    /\ UNCHANGED <<device_source_list, taskQ, refreshing, last_op>>

\* close() raises: disconnect() has no handler, the exception leaves it.
CloseFails(c) ==
    /\ calls[c].pc = "close"
    /\ calls' = [calls EXCEPT ![c].pc = "raised"]
    /\ KeepSession /\ KeepDriver /\ KeepConfig
    /\ UNCHANGED transportVars

\* close() returns: disconnect() returns.
CloseReturns(c) ==
    /\ calls[c].pc = "closed"
    /\ calls' = [calls EXCEPT ![c].pc = "done"]
    /\ KeepSession /\ KeepDriver /\ KeepConfig
    /\ UNCHANGED transportVars

\* ------------------------------------------------- Transport notifications
\* The remote end drops the link.
TransportDrop ==
    /\ link = "up"
    /\ Len(notifQ) < MaxNotif
    /\ link' = "down"
    /\ notifQ' = Append(notifQ, "DISCONNECTED")
    /\ UNCHANGED calls
    /\ KeepSession /\ KeepDriver /\ KeepConfig
    /\ UNCHANGED <<device_source_list, taskQ, refreshing, last_op>>

\* A DISCONNECTED handler that also resets the cached power state.
OnDisconnected_ResetsStatus ==
    /\ _connected' = FALSE
    /\ _is_alive' = FALSE
    /\ _attr_state' = "UNAVAILABLE"
    /\ current_status' = "unknown"
    /\ evQ' = Emit(evQ, <<[ev |-> "DISCONNECTED", entity |-> None,
                          attr |-> None, value |-> None]>>)
    /\ UNCHANGED refreshing

\* _handle_connection_state for one notification.
OnDisconnected ==
    /\ _connected' = FALSE
    /\ _is_alive' = FALSE
    /\ _attr_state' = "UNAVAILABLE"
    /\ evQ' = Emit(evQ, <<[ev |-> "DISCONNECTED", entity |-> None,
                          attr |-> None, value |-> None]>>)
    /\ UNCHANGED <<current_status, refreshing>>

\* A CONNECTED handler that does not set the connected flag.
OnConnected_KeepsFlag ==
    /\ evQ' = Emit(evQ, <<[ev |-> "CONNECTED", entity |-> None,
                          attr |-> None, value |-> None]>>)
    /\ refreshing' = IF variant = "device" THEN refreshing + 1 ELSE refreshing
    /\ UNCHANGED <<_connected, _is_alive, _attr_state, current_status>>

OnConnected ==
    /\ _connected' = TRUE
    /\ evQ' = Emit(evQ, <<[ev |-> "CONNECTED", entity |-> None,
                          attr |-> None, value |-> None]>>)
    /\ refreshing' = IF variant = "device" THEN refreshing + 1 ELSE refreshing
    /\ UNCHANGED <<_is_alive, _attr_state, current_status>>

HandleConnectionState ==
    /\ notifQ # <<>>
    /\ Len(evQ) < MaxEvents
    /\ (Head(notifQ) = "CONNECTED" /\ variant = "device") => refreshing < MaxRefresh
    /\ notifQ' = Tail(notifQ)
    /\ IF Head(notifQ) = "DISCONNECTED" THEN OnDisconnected ELSE OnConnected
    /\ UNCHANGED <<_disconnecting, _source_list, _active_source>>
    /\ UNCHANGED <<link, device_source_list, taskQ, last_op>>
    /\ UNCHANGED <<api_device_state, remote_state, api_update, calls>>
    /\ KeepConfig

\* device.py: the CONNECTED handler wakes from asyncio.sleep(1) and fetches the
\* labels.
RefreshLabels ==
    /\ refreshing > 0
    /\ refreshing' = refreshing - 1
    /\ last_op' = [name |-> "get_labels", arg |-> -1]
    /\ UNCHANGED <<link, device_source_list, notifQ, taskQ>>
    /\ UNCHANGED calls
    /\ KeepSession /\ KeepDriver /\ KeepConfig

\* ---------------------------------------------------------------- registry
\* _configured_lumagens is a dict: its entries are kept in insertion order, a
\* deleted entry leaves a dead slot behind, clear() drops all of them.
LiveAt(i) == registry[i].live
\* len(_configured_lumagens)
Used == Cardinality({i \in 1..Len(registry) : LiveAt(i)})
\* `device_id in _configured_lumagens`
Registered(device_id) ==
    \E i \in 1..Len(registry) : LiveAt(i) /\ registry[i].id = device_id
\* The session objects in the registry.
Sessions == {registry[i].obj : i \in {j \in 1..Len(registry) : LiveAt(j)}}

\* get_controller(device_id): the session registered for the id, None (0)
\* when there is none.
get_controller(device_id) ==
    IF Registered(device_id)
    THEN registry[CHOOSE i \in 1..Len(registry) :
                      LiveAt(i) /\ registry[i].id = device_id].obj
    ELSE 0

\* A register_controller that replaces the session of a registered id.
register_controller_Replaces(device_id, controller) ==
    [i \in 1..Len(registry) |->
        IF LiveAt(i) /\ registry[i].id = device_id
        THEN [registry[i] EXCEPT !.live = FALSE] ELSE registry[i]]
    \o <<[id |-> device_id, obj |-> controller, live |-> TRUE]>>

\* register_controller(device_id, controller): the registry afterwards.
register_controller(device_id, controller) ==
    IF ~Registered(device_id)
    THEN Append(registry, [id |-> device_id, obj |-> controller, live |-> TRUE])
    ELSE registry

\* unregister_controller(device_id): pop(device_id, None).
unregister_controller(device_id) ==
    [i \in 1..Len(registry) |->
        IF registry[i].id = device_id
        THEN [registry[i] EXCEPT !.live = FALSE] ELSE registry[i]]

\* clear_controllers()
clear_controllers == <<>>

\* What an action of the driver or the registry leaves alone: the session,
\* its Transport and its calls.
KeepRuntime ==
    /\ UNCHANGED <<variant, discovery, sessionVars, transportVars, calls>>
    /\ UNCHANGED <<evQ, remote_state, api_update>>

\* ------------------------------------------------------------------ driver
\* A mapping that hands the media-player state to the remote unchanged.
REMOTE_STATE_MAPPING_Identity(media_state) == media_state

\* REMOTE_STATE_MAPPING.get(media_state, States.UNKNOWN): the remote entity's
\* state for a media-player state.
REMOTE_STATE_MAPPING(media_state) ==
    CASE media_state = "OFF" -> "OFF"
      [] media_state = "ON" -> "ON"
      [] media_state = "STANDBY" -> "OFF"
      [] media_state = "UNAVAILABLE" -> "UNAVAILABLE"
      [] OTHER -> "UNKNOWN"

\* LumagenRemote.filter_changed_attributes: the remote's new state when the
\* update carries a state that maps to another one than the entity holds,
\* None when there is nothing to publish.
filter_changed_attributes(attr, value) ==
    IF attr # "state" THEN None
    ELSE IF remote_state # REMOTE_STATE_MAPPING(value)
         THEN REMOTE_STATE_MAPPING(value)
         ELSE None

\* An on_lumagen_update that looks neither at the registry nor at the
\* configured entities.
on_lumagen_update_Unchecked(event) ==
    LET changed_attrs == IF event.entity = "remote"
                         THEN filter_changed_attributes(event.attr, event.value)
                         ELSE None
    IN /\ api_update' = changed_attrs
       /\ remote_state' = IF changed_attrs # None THEN changed_attrs ELSE remote_state

\* on_lumagen_update: dropped when the device id of the entity is not
\* registered or the entity is not configured; otherwise, for an UPDATE of the
\* remote entity, the changed state, if there is one, is handed to
\* api.configured_entities.update_attributes, which stores and publishes it.
on_lumagen_update(event) ==
    LET device == get_controller(ThisDevice)
        entity == EntityId(event.entity, ThisDevice)
        changed_attrs == IF device # 0 /\ entity \in configured
                            /\ event.entity = "remote"
                         THEN filter_changed_attributes(event.attr, event.value)
                         ELSE None
    IN /\ api_update' = changed_attrs
       /\ remote_state' = IF changed_attrs # None THEN changed_attrs ELSE remote_state

\* The driver's listeners for the session's CONNECTED, DISCONNECTED and UPDATE
\* events: on_lumagen_connected and on_lumagen_disconnected return early when
\* the device id is not registered.
DriverListener ==
    /\ evQ # <<>>
    /\ evQ' = Tail(evQ)
    /\ api_device_state' =
          CASE get_controller(ThisDevice) = 0 -> api_device_state
            [] Head(evQ).ev = "CONNECTED" -> "CONNECTED"
            [] Head(evQ).ev = "DISCONNECTED" -> "DISCONNECTED"
            [] OTHER -> api_device_state
    /\ IF Head(evQ).ev = "UPDATE"
       THEN on_lumagen_update(Head(evQ))
       ELSE api_update' = None /\ UNCHANGED remote_state
    /\ UNCHANGED calls
    /\ KeepSession /\ KeepConfig
    /\ UNCHANGED transportVars

\* ------------------------------------------------- attribute notifications
\* The Transport decodes a device report and notifies the listeners of the
\* attribute: the session's callback creates a task (asyncio.create_task).
Notifications ==
    [attr : {"device_status"}, value : StatusValues]
    \cup [attr : {"is_alive"}, value : {None}]
    \cup [attr : {"physical_input_selected"}, value : InputValues]

\* The telemetry fields of the source signal, and the values they report.
TelemetryFields ==
    {"current_source_content_aspect", "detected_source_aspect", "source_mode",
     "source_vertical_rate", "source_dynamic_range"}
TelemetryValues == {1, 2, 3}
TelemetryNotifications == [attr : TelemetryFields, value : TelemetryValues]

\* The attributes the session registers a listener for.
_attr_handlers ==
    {"device_status", "is_alive", "input_labels", "physical_input_selected"}
    \cup (IF variant = "device" THEN TelemetryFields ELSE {})

TransportNotifies(n) ==
    /\ link = "up"
    /\ n.attr \in _attr_handlers
    /\ Len(taskQ) < MaxTasks
    /\ taskQ' = Append(taskQ, n)
    /\ UNCHANGED <<link, device_source_list, notifQ, refreshing, last_op>>
    /\ UNCHANGED calls
    /\ KeepSession /\ KeepDriver /\ KeepConfig

\* The Transport receives the input labels: it replaces its source list and
\* notifies input_labels.
TransportLabels(l) ==
    /\ link = "up"
    /\ Len(taskQ) < MaxTasks
    /\ device_source_list' = l
    /\ taskQ' = Append(taskQ, [attr |-> "input_labels", value |-> l])
    /\ UNCHANGED <<link, notifQ, refreshing, last_op>>
    /\ UNCHANGED calls
    /\ KeepSession /\ KeepDriver /\ KeepConfig

Update(entity, attr, value) ==
    [ev |-> "UPDATE", entity |-> entity, attr |-> attr, value |-> value]

\* A PowerStateEnum that takes every value for a member.
IsPowerState_Any(value) == TRUE

\* PowerStateEnum(value): the member with that value, ValueError otherwise.
IsPowerState(value) == value \in PowerStates

\* States the power status maps to.
AttrStateOf(status) ==
    CASE status = "Active" -> "ON"
      [] status = "Standby" -> "STANDBY"
      [] OTHER -> "UNKNOWN"

\* The UPDATE events _handle_device_status emits for a valid value: device.py
\* one per entity with the mapped state, lumagen.py one with the raw value.
StatusUpdates(value) ==
    IF variant = "device"
    THEN <<Update("media_player", "state", AttrStateOf(value)),
           Update("remote", "state", AttrStateOf(value))>>
    ELSE <<Update("device", "state", value)>>

HandleDeviceStatus(value) ==
    /\ IF IsPowerState(value)
       THEN /\ current_status' = value
            /\ _attr_state' = AttrStateOf(value)
            /\ evQ' = Emit(evQ, StatusUpdates(value))
       ELSE /\ current_status' = "unknown"
            /\ _attr_state' = "UNKNOWN"
            /\ UNCHANGED evQ
    /\ UNCHANGED <<_connected, _disconnecting, _is_alive, _source_list, _active_source>>

\* An is_alive handler that also marks the device as powered on.
HandleIsAlive_PowersOn ==
    /\ _is_alive' = TRUE
    /\ current_status' = "Active"
    /\ UNCHANGED <<_connected, _disconnecting, _attr_state,
                   _source_list, _active_source, evQ>>

HandleIsAlive ==
    /\ _is_alive' = TRUE
    /\ UNCHANGED <<_connected, _disconnecting, _attr_state, current_status,
                   _source_list, _active_source, evQ>>

\* The UPDATE event _handle_input_labels emits.
LabelsUpdate(value) ==
    IF variant = "device"
    THEN <<Update("media_player", "source_list", value)>>
    ELSE <<Update("device", "source_list", value)>>

HandleInputLabels(value) ==
    /\ evQ' = Emit(evQ, LabelsUpdate(value))
    /\ _source_list' = device_source_list
    /\ UNCHANGED <<_connected, _disconnecting, _is_alive, _attr_state,
                   current_status, _active_source>>

\* int(value): defined on decimal strings, ValueError otherwise.
IsInt(value) == value \in DOMAIN IntOf

\* A lookup that takes the reported input number for a 0-based index.
SourceAt_ZeroBased(value) ==
    LET index == IntOf[value]
    IN IF 0 <= index /\ index < Len(_source_list)
       THEN _source_list[index + 1]
       ELSE None

\* The source a 1-based input number names: None when it is out of range.
SourceAt(value) ==
    LET index == IntOf[value] - 1
    IN IF 0 <= index /\ index < Len(_source_list)
       THEN _source_list[index + 1]
       ELSE None

\* Python truth of a source name: None and "" are false.
Truthy(name) == name \notin {None, ""}

\* The events _handle_physical_input_selected emits for a numeric value.
InputUpdates(value) ==
    (IF Truthy(SourceAt(value))
     THEN <<Update(IF variant = "device" THEN "media_player" ELSE "device",
                   "source", SourceAt(value))>>
     ELSE <<>>)
    \o (IF variant = "device"
        THEN <<Update("physical_input_selected", "value", <<"Input: ", value>>)>>
        ELSE <<>>)

HandlePhysicalInputSelected(value) ==
    /\ IF IsInt(value)
       THEN /\ _active_source' = IF Truthy(SourceAt(value))
                                 THEN SourceAt(value) ELSE _active_source
            /\ evQ' = Emit(evQ, InputUpdates(value))
       ELSE UNCHANGED <<_active_source, evQ>>
    /\ UNCHANGED <<_connected, _disconnecting, _is_alive, _attr_state,
                   current_status, _source_list>>

\* str(value) of a number: its decimal string.
Str(value) == CHOOSE s \in DOMAIN IntOf : IntOf[s] = value

\* A mapping that publishes every telemetry field to one sensor entity.
SensorPrefix_Shared(attr) == "input_mode"

\* The sensor entity a telemetry field is published to.
SensorPrefix(attr) ==
    CASE attr = "current_source_content_aspect" -> "current_source_content_aspect"
      [] attr = "detected_source_aspect" -> "detected_source_aspect"
      [] attr = "source_mode" -> "input_mode"
      [] attr = "source_vertical_rate" -> "input_rate"
      [] attr = "source_dynamic_range" -> "input_format"

\* The UPDATE event a telemetry handler emits.
TelemetryUpdate(attr, value) ==
    <<Update(SensorPrefix(attr), "value", Str(value))>>

HandleTelemetry(attr, value) ==
    /\ evQ' = Emit(evQ, TelemetryUpdate(attr, value))
    /\ UNCHANGED sessionVars

\* The events the handler of a notification emits in the current state.
Deltas(task) ==
    CASE task.attr = "device_status" ->
             IF IsPowerState(task.value) THEN StatusUpdates(task.value) ELSE <<>>
      [] task.attr = "is_alive" -> <<>>
      [] task.attr = "input_labels" -> LabelsUpdate(task.value)
      [] task.attr = "physical_input_selected" ->
             IF IsInt(task.value) THEN InputUpdates(task.value) ELSE <<>>
      [] task.attr \in TelemetryFields -> TelemetryUpdate(task.attr, task.value)

\* _on_device_state_event picks the handler registered for the attribute and
\* awaits it; no handler suspends before it has emitted.
OnDeviceStateEvent(task) ==
    /\ Len(evQ) + Len(Deltas(task)) <= MaxEvents
    /\ CASE task.attr = "device_status" -> HandleDeviceStatus(task.value)
         [] task.attr = "is_alive" -> HandleIsAlive
         [] task.attr = "input_labels" -> HandleInputLabels(task.value)
         [] task.attr = "physical_input_selected" ->
                HandlePhysicalInputSelected(task.value)
         [] task.attr \in TelemetryFields -> HandleTelemetry(task.attr, task.value)
    /\ UNCHANGED <<link, device_source_list, notifQ, refreshing, last_op>>
    /\ UNCHANGED <<api_device_state, remote_state, api_update, calls>>
    /\ KeepConfig

\* An event loop that runs the newest attribute task first.
RunTask_Newest ==
    /\ taskQ # <<>>
    /\ taskQ' = SubSeq(taskQ, 1, Len(taskQ) - 1)
    /\ OnDeviceStateEvent(taskQ[Len(taskQ)])

\* The event loop runs the tasks in the order they were created: the oldest
\* attribute task runs, to its end.
RunTask ==
    /\ taskQ # <<>>
    /\ taskQ' = Tail(taskQ)
    /\ OnDeviceStateEvent(Head(taskQ))

\* ---------------------------------------------------------------- commands
\* The call hands an operation to the Transport's executor and awaits it.
ExecutorCall(c, op, a, name, opArg) ==
    /\ calls' = Begin(c, [NewCall(op, a) EXCEPT !.pc = "send", !.sends = 1])
    /\ last_op' = [name |-> name, arg |-> opArg]

\* The call returns without reaching the Transport.
Returns(c, op, a, status) ==
    /\ calls' = Begin(c, [NewCall(op, a) EXCEPT !.pc = "done", !.res = status])
    /\ UNCHANGED last_op

\* is_on / is_powered_on
is_on == current_status = "Active"

\* A power_on() without the "already on" skip.
PowerOnSends_NoSkip == IF variant = "device" THEN _connected ELSE TRUE

\* A power_off() that takes every state but Standby for "on".
PowerOffSends_NotStandby ==
    IF variant = "device"
    THEN current_status # "Standby" /\ _connected
    ELSE current_status # "Standby"

\* Whether power_on() reaches the executor.  device.py: not already on, and
\* send_command() finds the session connected.  lumagen.py: in standby.
PowerOnSends ==
    IF variant = "device"
    THEN ~is_on /\ _connected
    ELSE current_status = "Standby"

\* Whether power_off() reaches the executor (device.py through send_command()).
PowerOffSends ==
    IF variant = "device"
    THEN is_on /\ _connected
    ELSE is_on

power_on(c) ==
    /\ Take(c)
    /\ IF PowerOnSends
       THEN ExecutorCall(c, "power_on", current_status, "power_on", -1)
       ELSE Returns(c, "power_on", current_status, "OK")
    /\ UNCHANGED <<link, device_source_list, notifQ, taskQ, refreshing>>
    /\ KeepSession /\ KeepDriver /\ KeepConfig

power_off(c) ==
    /\ Take(c)
    /\ IF PowerOffSends
       THEN ExecutorCall(c, "power_off", current_status, "standby", -1)
       ELSE Returns(c, "power_off", current_status, "OK")
    /\ UNCHANGED <<link, device_source_list, notifQ, taskQ, refreshing>>
    /\ KeepSession /\ KeepDriver /\ KeepConfig

\* lumagen.py power_toggle(): standby when powered on, power_on otherwise; it
\* does not look at the connected flag.  device.py has no power_toggle().
power_toggle(c) ==
    /\ variant = "lumagen"
    /\ Take(c)
    /\ ExecutorCall(c, "power_toggle", current_status,
                    IF is_on THEN "standby" ELSE "power_on", -1)
    /\ UNCHANGED <<link, device_source_list, notifQ, taskQ, refreshing>>
    /\ KeepSession /\ KeepDriver /\ KeepConfig

\* An index() that counts positions from 1.
IndexOf_OneBased(list, source) ==
    CHOOSE i \in 1..Len(list) :
        /\ list[i] = source
        /\ \A j \in 1..(i - 1) : list[j] # source

\* source_list.index(source): 0-based position of the first occurrence.
IndexOf(list, source) ==
    (CHOOSE i \in 1..Len(list) :
        /\ list[i] = source
        /\ \A j \in 1..(i - 1) : list[j] # source) - 1

Contains(list, source) == \E i \in 1..Len(list) : list[i] = source

\* The argument check of select_source(): device.py rejects an empty name and a
\* name that is not in the source list, lumagen.py only an empty name.
SourceRejected(source) ==
    IF variant = "device"
    THEN ~Truthy(source) \/ ~Contains(_source_list, source)
    ELSE ~Truthy(source)

\* The input number select_source() sends: device.py the position of the name,
\* lumagen.py always 0.
SourceIndex(source) ==
    IF variant = "device" THEN IndexOf(_source_list, source) ELSE 0

select_source(c, source) ==
    /\ Take(c)
    /\ IF SourceRejected(source)
       THEN Returns(c, "select_source", source, "BAD_REQUEST")
       ELSE ExecutorCall(c, "select_source", source, "input", SourceIndex(source))
    /\ UNCHANGED <<link, device_source_list, notifQ, taskQ, refreshing>>
    /\ KeepSession /\ KeepDriver /\ KeepConfig

\* How an executor operation can end: it returns, raises ValueError, or raises
\* another exception.
Outcomes == {"ok", "ValueError", "Error"}

\* Whether the exception of a failed executor operation leaves the call.
\* device.py: _execute_command catches ValueError only (power_on, power_off and
\* the remote's send_command go through it); select_source catches every
\* Exception.  lumagen.py catches nothing.
Escapes(op, outcome) ==
    /\ outcome # "ok"
    /\ IF variant = "device"
       THEN op \in {"power_on", "power_off", "command"} /\ outcome = "Error"
       ELSE TRUE

\* The status the call returns once the executor operation has ended.
StatusAfter(op, outcome) ==
    IF op \in {"select_source", "command"} /\ outcome # "ok"
    THEN "BAD_REQUEST" ELSE "OK"

\* The awaited executor operation of call c ends with `outcome`.
SendEnds(c, outcome) ==
    /\ calls[c].pc = "send"
    /\ calls' = [calls EXCEPT
          ![c].pc = IF Escapes(calls[c].op, outcome) THEN "raised" ELSE "done",
          ![c].res = IF Escapes(calls[c].op, outcome)
                     THEN None ELSE StatusAfter(calls[c].op, outcome)]
    /\ KeepSession /\ KeepDriver /\ KeepConfig
    /\ UNCHANGED transportVars

SendReturns(c) == \E outcome \in Outcomes : SendEnds(c, outcome)

\* ------------------------------------------------------- remote: command()
\* Strings the translator takes apart or puts together, each with its pieces:
\* a string is cut at every "_" and ".", the separators being pieces too.
StringTable ==
    {<<"5", <<"5">>>>, <<"10", <<"10">>>>,
     <<"send_5", <<"send", "_", "5">>>>, <<"send_10", <<"send", "_", "10">>>>,
     <<"source_aspect_1_85", <<"source", "_", "aspect", "_", "1", "_", "85">>>>,
     <<"source_aspect_4x3", <<"source", "_", "aspect", "_", "4x3">>>>,
     <<"1.85", <<"1", ".", "85">>>>, <<"4x3", <<"4x3">>>>,
     <<"menu", <<"menu">>>>, <<"MENU", <<"MENU">>>>,
     <<"input", <<"input">>>>, <<"INPUT", <<"INPUT">>>>,
     <<"display_message", <<"display", "_", "message">>>>,
     <<"MSG_ON", <<"MSG", "_", "ON">>>>,
     <<"bogus", <<"bogus">>>>,
     <<"remote", <<"remote">>>>, <<"remote.on", <<"remote", ".", "on">>>>,
     <<"on", <<"on">>>>}

\* The pieces of a string, and the string a sequence of pieces spells ("?"
\* stands for a string the table does not hold).
Chunks(str) == (CHOOSE p \in StringTable : p[1] = str)[2]
Join(pieces) ==
    IF \E p \in StringTable : p[2] = pieces
    THEN (CHOOSE p \in StringTable : p[2] = pieces)[1]
    ELSE "?"

\* str.startswith(prefix), str[n:] and str.replace(old, new) on pieces.
StartsWith(pieces, prefix) ==
    /\ Len(pieces) >= Len(prefix)
    /\ SubSeq(pieces, 1, Len(prefix)) = prefix
Drop(pieces, n) == SubSeq(pieces, n + 1, Len(pieces))
Replace(pieces, old, new) ==
    [i \in 1..Len(pieces) |-> IF pieces[i] = old THEN new ELSE pieces[i]]

\* Members of SimpleCommands (name and value): a numeric key below ten and
\* the key 10, two aspect ratios, a plain command, and the two commands that
\* take a parameter.
SimpleCommands ==
    {[name |-> <<"NUM", "_", "5">>, value |-> "5"],
     [name |-> <<"NUM", "_", "10">>, value |-> "10"],
     [name |-> <<"ASPECT", "_", "1", "_", "85">>, value |-> "source_aspect_1_85"],
     [name |-> <<"ASPECT", "_", "4", "_", "X", "_", "3">>, value |-> "source_aspect_4x3"],
     [name |-> <<"MENU">>, value |-> "menu"],
     [name |-> <<"INPUT">>, value |-> "input"],
     [name |-> <<"MSG", "_", "ON">>, value |-> "display_message"]}

\* SimpleCommands._value2member_map_: the values of the members.
Values == {m.value : m \in SimpleCommands}

\* SimpleCommands.display_name of the member called `name`.
display_name(name) ==
    IF StartsWith(name, <<"NUM", "_">>) THEN Join(Drop(name, 2))
    ELSE IF name = <<"ASPECT", "_", "4", "_", "X", "_", "3">> THEN "4x3"
    ELSE IF StartsWith(name, <<"ASPECT", "_">>)
         THEN Join(Replace(Drop(name, 2), "_", "."))
         ELSE Join(name)

\* RemoteDef.simple_commands: the names the remote entity advertises.
simple_commands == {display_name(m.name) : m \in SimpleCommands}

\* The command ids a request may carry (ucapi.remote.Commands and one that is
\* no member) and the values of its "command" parameter: none, the values and
\* the display names of the members, a name that is neither, and two that
\* start with "remote".
CmdIds == {"on", "off", "toggle", "send_cmd", "bogus"}
SimpleCmds == {None} \cup Values \cup simple_commands \cup {"bogus", "remote", "remote.on"}

\* simple_cmd.split(".")[1]: the piece after the first "."; IndexError when
\* the string has none.
HasDot(pieces) == \E i \in 1..Len(pieces) : pieces[i] = "."
SecondPart(pieces) ==
    LET dot == CHOOSE i \in 1..Len(pieces) :
                   pieces[i] = "." /\ \A j \in 1..(i - 1) : pieces[j] # "."
        rest == Drop(pieces, dot)
        end == IF HasDot(rest)
               THEN (CHOOSE i \in 1..Len(rest) :
                        rest[i] = "." /\ \A j \in 1..(i - 1) : rest[j] # ".") - 1
               ELSE Len(rest)
    IN Join(SubSeq(rest, 1, end))

\* The command id command() goes by: the one in the "command" parameter when
\* that starts with "remote", else the one of the request.
EffectiveCmdId(cmd_id, simple_cmd) ==
    IF Truthy(simple_cmd) /\ StartsWith(Chunks(simple_cmd), <<"remote">>)
    THEN IF HasDot(Chunks(simple_cmd))
         THEN SecondPart(Chunks(simple_cmd))
         ELSE "IndexError"
    ELSE cmd_id

\* simple_cmd.isdigit() and int(simple_cmd).
CmdInt == [t \in {"5", "10"} |-> IF t = "5" THEN 5 ELSE 10]
\* An isdigit() that no string passes.
IsDigit_Never(simple_cmd) == FALSE
IsDigit(simple_cmd) == simple_cmd \in DOMAIN CmdInt

\* The SEND_CMD branch of command() up to the call of send_command(): the
\* executor method to call and its parameter, or no method and the status to
\* return.  Only the values of SimpleCommands are looked up.
Resolve(simple_cmd) ==
    IF ~Truthy(simple_cmd)
    THEN [actual_cmd |-> None, parm |-> -1, status |-> "BAD_REQUEST"]
    ELSE IF simple_cmd \notin Values
    THEN [actual_cmd |-> None, parm |-> -1, status |-> "NOT_IMPLEMENTED"]
    ELSE IF IsDigit(simple_cmd) /\ 0 <= CmdInt[simple_cmd] /\ CmdInt[simple_cmd] <= 10
    THEN [actual_cmd |-> Join(<<"send", "_">> \o Chunks(simple_cmd)),
          parm |-> -1, status |-> "BAD_REQUEST"]
    ELSE IF simple_cmd = "input"
    THEN IF Contains(_source_list, _active_source)
         THEN [actual_cmd |-> "input", parm |-> IndexOf(_source_list, _active_source),
               status |-> "BAD_REQUEST"]
         ELSE [actual_cmd |-> None, parm |-> -1, status |-> "BAD_REQUEST"]
    ELSE [actual_cmd |-> simple_cmd, parm |-> -1, status |-> "BAD_REQUEST"]

\* getattr(self.device.executor, command, None): the executor is the
\* Transport's; the methods the sessions call by name exist, any other may or
\* may not.
ExecutorHas(command) ==
    IF command \in {"power_on", "standby", "input", "get_labels"}
    THEN {TRUE} ELSE BOOLEAN

\* send_command() and _execute_command(), up to the executor call.
send_command(c, simple_cmd, command, parm) ==
    IF ~_connected
    THEN Returns(c, "command", simple_cmd, "SERVICE_UNAVAILABLE")
    ELSE \E found \in ExecutorHas(command) :
            IF found
            THEN ExecutorCall(c, "command", simple_cmd, command, parm)
            ELSE Returns(c, "command", simple_cmd, "NOT_IMPLEMENTED")

\* The call ends with an exception before it reaches the Transport.
Raises(c, op, a) ==
    /\ calls' = Begin(c, [NewCall(op, a) EXCEPT !.pc = "raised"])
    /\ UNCHANGED last_op

\* LumagenRemote.command(cmd_id, {"command": simple_cmd}), up to its first
\* suspension.  The remote entity drives a device.py session.
command(c, cmd_id, simple_cmd) ==
    /\ variant = "device"
    /\ LET cmd == EffectiveCmdId(cmd_id, simple_cmd)
       IN CASE cmd = "on" -> power_on(c)
            [] cmd = "off" -> power_off(c)
            [] OTHER ->
                 /\ Take(c)
                 /\ CASE cmd = "IndexError" -> Raises(c, "command", simple_cmd)
                      [] cmd = "send_cmd" ->
                           IF Resolve(simple_cmd).actual_cmd = None
                           THEN Returns(c, "command", simple_cmd,
                                        Resolve(simple_cmd).status)
                           ELSE send_command(c, simple_cmd,
                                             Resolve(simple_cmd).actual_cmd,
                                             Resolve(simple_cmd).parm)
                      [] OTHER -> Returns(c, "command", simple_cmd, "NOT_IMPLEMENTED")
                 /\ UNCHANGED <<link, device_source_list, notifQ, taskQ, refreshing>>
                 /\ KeepSession /\ KeepDriver /\ KeepConfig

\* ------------------------------------------------ driver: devices, entities
\* _configure_new_lumagen(info, connect=False): the session registered for the
\* id is reused (its disconnect() is called without await, which runs nothing
\* of it); otherwise a session is constructed, given the driver's listeners
\* and registered.  The device's entities are made available.
_configure_new_lumagen(device_id) ==
    LET device == get_controller(device_id) IN
    /\ IF device # 0
       THEN UNCHANGED <<registry, created, listeners>>
       ELSE /\ created < MaxSessions
            /\ created' = created + 1
            /\ listeners' = listeners \cup {created + 1}
            /\ registry' = register_controller(device_id, created + 1)
    /\ available' = available \cup EntitiesOf(device_id)

\* on_device_added(device): the driver reports CONNECTED and configures the
\* device without connecting it.
on_device_added(device_id) ==
    /\ _configure_new_lumagen(device_id)
    /\ api_device_state' = "CONNECTED"
    /\ UNCHANGED <<configured, removal, unsub, walk>>
    /\ KeepRuntime

\* on_device_removed(device).  Without a device the registry and the entity
\* collections are cleared.  With one, `device` is rebound to the registered
\* session or None, neither of which has the attribute `id` that both
\* branches read next: unregister_device(device.id) raises AttributeError
\* while its argument is evaluated, and so does the log call of the else
\* branch.
on_device_removed(device) ==
    /\ IF device = None
       THEN /\ registry' = clear_controllers
            /\ configured' = {}
            /\ available' = {}
            /\ removal' = [device |-> None, ended |-> "returned"]
       ELSE /\ removal' = [device |-> device, ended |-> "AttributeError"]
            /\ UNCHANGED <<registry, configured, available>>
    /\ UNCHANGED <<created, listeners, unsub, walk, api_device_state>>
    /\ KeepRuntime

\* driver_setup_handler on AbortDriverSetup: clear_devices().
setup_aborted ==
    /\ registry # <<>>
    /\ registry' = clear_controllers
    /\ UNCHANGED <<configured, available, created, listeners, removal, unsub, walk,
                   api_device_state>>
    /\ KeepRuntime

\* config.extract_device_id(entity): the device id an entity belongs to.
extract_device_id(entity) == entity.dev

\* The remote subscribes to an available entity, which makes it a configured
\* one, and on_subscribe_entities runs for it.  A device without a session is
\* configured again (config.devices has every device of DeviceIds); the
\* entity of a registered device gets the session's attributes (the remote
\* entity its mapped state).
on_subscribe_entities(e) ==
    LET device_id == extract_device_id(e)
        device == get_controller(device_id) IN
    /\ e \in available \ configured
    /\ configured' = configured \cup {e}
    /\ IF device = 0
       THEN /\ _configure_new_lumagen(device_id)
            /\ UNCHANGED <<remote_state, api_update>>
       ELSE /\ UNCHANGED <<registry, created, listeners, available>>
            /\ IF device = 1 /\ e.kind = "remote"
               THEN /\ remote_state' = REMOTE_STATE_MAPPING(_attr_state)
                    /\ api_update' = remote_state'
               ELSE UNCHANGED <<remote_state, api_update>>
    /\ UNCHANGED <<removal, unsub, walk, api_device_state, evQ>>
    /\ UNCHANGED <<variant, discovery, sessionVars, transportVars, calls>>

\* ------------------------------------------------- on_unsubscribe_entities
\* connect() and disconnect() return without suspending when their guard
\* skips the Transport.
ReturnsAtOnce(op) == IF op = "connect" THEN AlreadyConnected ELSE DisconnectSkips

\* devices_to_remove: the devices of the configured entities that are being
\* unsubscribed, without the devices of the remaining configured entities.
devices_to_remove(entity_ids) ==
    {extract_device_id(e) : e \in entity_ids \cap configured}
       \ {extract_device_id(e) : e \in configured \ entity_ids}

\* The orders in which a set can be iterated.
Orders(S) ==
    {q \in [1..Cardinality(S) -> S] : \A i, j \in DOMAIN q : q[i] = q[j] => i = j}

\* The loop over devices_to_remove from handler state u up to its next
\* suspension or its end.  A device that is not registered is passed over.
\* The loop is suspended in the disconnect() of the first session object
\* unless that returns at once; the other sessions are taken in the state
\* where it returns at once.  After disconnect() the session's listeners are
\* removed.
RECURSIVE UnsubAdvance(_)
UnsubAdvance(u) ==
    IF u.todo = <<>> THEN [u EXCEPT !.pc = "done"]
    ELSE LET device_id == Head(u.todo)
             device == get_controller(device_id) IN
         IF device = 0 THEN UnsubAdvance([u EXCEPT !.todo = Tail(u.todo)])
         ELSE IF device = 1 /\ ~ReturnsAtOnce("disconnect")
              THEN [u EXCEPT !.pc = "await", !.closed = u.closed \cup {device_id}]
              ELSE UnsubAdvance([u EXCEPT !.todo = Tail(u.todo),
                                          !.closed = u.closed \cup {device_id},
                                          !.unheard = u.unheard \cup {device}])

\* The handler runs from state u to its next suspension.  When it has ended
\* the entities leave api.configured_entities; of the handler's state the
\* devices it called disconnect() on are kept.
UnsubOn(u) ==
    LET n == UnsubAdvance(u) IN
    /\ listeners' = listeners \ n.unheard
    /\ IF n.pc = "await"
       THEN /\ \E c \in CallIds : DisconnectBegins(c) /\ unsub' = [n EXCEPT !.slot = c]
            /\ UNCHANGED configured
       ELSE /\ unsub' = [NoUnsub EXCEPT !.pc = "done", !.closed = n.closed]
            /\ configured' = configured \ n.ids
            /\ UNCHANGED <<variant, discovery, sessionVars, transportVars, calls>>
            /\ KeepDriver
    /\ UNCHANGED <<registry, available, created, removal, walk>>

on_unsubscribe_entities(entity_ids) ==
    /\ unsub.pc \in {"idle", "done", "raised"}
    /\ \E order \in Orders(devices_to_remove(entity_ids)) :
          UnsubOn([NoUnsub EXCEPT !.ids = entity_ids, !.cfg = configured,
                                  !.reg = {id \in DeviceIds : Registered(id)},
                                  !.todo = order])

\* The awaited disconnect() has ended: an exception leaves the handler, a
\* return lets it remove the session's listeners and go on.
UnsubResumes ==
    /\ unsub.pc = "await"
    /\ calls[unsub.slot].pc \in {"done", "raised"}
    /\ IF calls[unsub.slot].pc = "raised"
       THEN /\ unsub' = [NoUnsub EXCEPT !.pc = "raised", !.closed = unsub.closed]
            /\ configured' = configured \ unsub.ids
            /\ UNCHANGED <<variant, discovery, sessionVars, transportVars, calls>>
            /\ UNCHANGED listeners
            /\ KeepDriver
            /\ UNCHANGED <<registry, available, created, removal, walk>>
       ELSE UnsubOn([unsub EXCEPT !.todo = Tail(unsub.todo),
                                  !.unheard = unsub.unheard \cup {1}])

\* -------------------------------------------------- registry: its operations
\* register_device(device_id, controller) with a session constructed for it.
register_device(device_id) ==
    /\ created < MaxSessions
    /\ created' = created + 1
    /\ registry' = register_controller(device_id, created + 1)
    /\ UNCHANGED <<configured, available, listeners, removal, unsub, walk,
                   api_device_state>>
    /\ KeepRuntime

\* unregister_device(device_id)
unregister_device(device_id) ==
    /\ registry' = unregister_controller(device_id)
    /\ UNCHANGED <<configured, available, created, listeners, removal, unsub, walk,
                   api_device_state>>
    /\ KeepRuntime

\* iter_controllers(): iter(_configured_lumagens.values()).  The iterator
\* remembers the dict's size, its own position among the entries and how many
\* values it has left to hand out.
iter_controllers(op) ==
    [NoWalk EXCEPT !.op = op, !.di_used = Used, !.len = Used, !.start = Sessions]

\* next() of the iterator: RuntimeError when the dict has another size than
\* at iter(); StopIteration when no entry is left at or after its position;
\* RuntimeError when there is one although it has handed out all its values;
\* otherwise the value of the next entry.
IterNext(w) ==
    LET rest == {i \in w.di_pos..Len(registry) : LiveAt(i)} IN
    IF w.di_used # Used THEN [w EXCEPT !.pc = "raised", !.error = "RuntimeError"]
    ELSE IF rest = {} THEN [w EXCEPT !.pc = "done"]
    ELSE IF w.len = 0 THEN [w EXCEPT !.pc = "raised", !.error = "RuntimeError"]
    ELSE LET i == CHOOSE k \in rest : \A l \in rest : k <= l IN
         [w EXCEPT !.pc = "await", !.at = registry[i].obj, !.di_pos = i + 1,
                   !.len = w.len - 1, !.visited = w.visited \cup {registry[i].obj}]

\* The loop of connect_all / disconnect_all from iterator state w up to its
\* next suspension or its end.  The first session object is the modelled one:
\* the loop is suspended in its call unless the call returns at once.  The
\* other sessions are taken in the state where their call returns at once.
RECURSIVE Advance(_)
Advance(w) ==
    LET n == IterNext(w) IN
    IF n.pc # "await" THEN n
    ELSE IF n.at = 1 /\ ~ReturnsAtOnce(n.op) THEN n
    ELSE Advance(n)

WalkOn(w) ==
    LET n == Advance(w) IN
    IF n.pc = "await"
    THEN \E c \in CallIds :
            /\ IF n.op = "connect" THEN ConnectBegins(c) ELSE DisconnectBegins(c)
            /\ walk' = [n EXCEPT !.slot = c]
    ELSE /\ walk' = n
         /\ UNCHANGED <<variant, discovery, sessionVars, transportVars, calls>>
         /\ KeepDriver

\* connect_all() / disconnect_all(), as the task the driver creates for it.
WalkStart(op) ==
    /\ walk.pc \in {"idle", "done", "raised"}
    /\ WalkOn(iter_controllers(op))
    /\ UNCHANGED <<registry, configured, available, created, listeners, removal, unsub>>

connect_all == WalkStart("connect")
disconnect_all == WalkStart("disconnect")

\* The awaited call of the walk has ended: an exception leaves the walk, a
\* return takes it to the next session.
WalkResumes ==
    /\ walk.pc = "await"
    /\ calls[walk.slot].pc \in {"done", "raised"}
    /\ IF calls[walk.slot].pc = "raised"
       THEN /\ walk' = [walk EXCEPT !.pc = "raised", !.error = "SessionError"]
            /\ UNCHANGED <<variant, discovery, sessionVars, transportVars, calls>>
            /\ KeepDriver
       ELSE WalkOn(walk)
    /\ UNCHANGED <<registry, configured, available, created, listeners, removal, unsub>>

\* ---------------------------------------------------------- specifications
\* No notification is waiting for its handler and no call is in flight.
Quiet ==
    /\ notifQ = <<>> /\ taskQ = <<>> /\ evQ = <<>> /\ refreshing = 0
    /\ \A c \in CallIds : Free(c)

\* No notification, task or event is waiting for its handler; calls may be
\* suspended.
Settled == notifQ = <<>> /\ taskQ = <<>> /\ evQ = <<>> /\ refreshing = 0

\* The connection lifecycle under concurrent calls: connect() and disconnect()
\* may overlap each other and the Transport's notifications.
NextConn ==
    \/ \E c \in CallIds : ConnectStart(c)
    \/ \E c \in CallIds : TransportOpens(c)
    \/ \E c \in CallIds : OpenFails(c)
    \/ \E c \in CallIds : OpenReturns(c)
    \/ \E c \in CallIds : ConnectSettled(c)
    \/ \E c \in CallIds : LabelsReturn(c)
    \/ \E c \in CallIds : DisconnectStart(c)
    \/ \E c \in CallIds : TransportCloses(c)
    \/ \E c \in CallIds : CloseFails(c)
    \/ \E c \in CallIds : CloseReturns(c)
    \/ TransportDrop
    \/ HandleConnectionState
    \/ RefreshLabels
    \/ DriverListener

SpecConn == Init /\ [][NextConn]_vars

\* Commands and notifications, one at a time: a call or a notification starts
\* only when the previous one has been fully handled.
NextCmd ==
    \/ Quiet /\ ConnectStart(1)
    \/ TransportOpens(1)
    \/ OpenFails(1)
    \/ OpenReturns(1)
    \/ ConnectSettled(1)
    \/ LabelsReturn(1)
    \/ Quiet /\ DisconnectStart(1)
    \/ TransportCloses(1)
    \/ CloseFails(1)
    \/ CloseReturns(1)
    \/ Quiet /\ TransportDrop
    \/ HandleConnectionState
    \/ RefreshLabels
    \/ DriverListener
    \/ Quiet /\ \E n \in Notifications : TransportNotifies(n)
    \/ Quiet /\ \E l \in SourceLists : TransportLabels(l)
    \/ RunTask
    \/ Quiet /\ power_on(1)
    \/ Quiet /\ power_off(1)
    \/ Quiet /\ power_toggle(1)
    \/ Quiet /\ \E source \in SourceNames : select_source(1, source)
    \/ SendReturns(1)

SpecCmd == Init /\ [][NextCmd]_vars

\* The connection lifecycle, one call at a time.
NextSeq ==
    \/ Quiet /\ ConnectStart(1)
    \/ TransportOpens(1)
    \/ OpenFails(1)
    \/ OpenReturns(1)
    \/ ConnectSettled(1)
    \/ LabelsReturn(1)
    \/ Quiet /\ DisconnectStart(1)
    \/ TransportCloses(1)
    \/ CloseFails(1)
    \/ CloseReturns(1)
    \/ Quiet /\ TransportDrop
    \/ HandleConnectionState
    \/ RefreshLabels
    \/ DriverListener

SpecSeq == Init /\ [][NextSeq]_vars

\* The connection lifecycle with its scheduling: the Transport answers every
\* open(), with success or with an error; the event loop runs every handler
\* and listener that has been scheduled.
SpecLive ==
    /\ Init /\ [][NextSeq]_vars
    /\ WF_vars(TransportOpens(1) \/ OpenFails(1))
    /\ WF_vars(HandleConnectionState)
    /\ WF_vars(RefreshLabels)
    /\ WF_vars(DriverListener)

\* The remote entity's commands on a device.py session, one at a time, with
\* the notifications that set what the translator reads: the connection, the
\* source list and the active source.
InitRemote == Init /\ variant = "device"

NextRemote ==
    \/ Quiet /\ ConnectStart(1)
    \/ TransportOpens(1)
    \/ OpenFails(1)
    \/ OpenReturns(1)
    \/ Quiet /\ TransportDrop
    \/ HandleConnectionState
    \/ RefreshLabels
    \/ DriverListener
    \/ Quiet /\ \E n \in Notifications :
                   n.attr = "physical_input_selected" /\ TransportNotifies(n)
    \/ Quiet /\ \E l \in SourceLists : TransportLabels(l)
    \/ RunTask
    \/ Quiet /\ \E cmd_id \in CmdIds : \E simple_cmd \in SimpleCmds :
                   command(1, cmd_id, simple_cmd)
    \/ SendReturns(1)

SpecRemote == InitRemote /\ [][NextRemote]_vars

\* Notifications that overlap: the Transport notifies while earlier
\* notifications still wait for their tasks.
AsyncNotifications == [attr : {"physical_input_selected"}, value : {"1"}]
AsyncLists == SourceLists \ {<<>>}

NextAsync ==
    \/ Quiet /\ ConnectStart(1)
    \/ TransportOpens(1)
    \/ OpenFails(1)
    \/ OpenReturns(1)
    \/ ConnectSettled(1)
    \/ LabelsReturn(1)
    \/ Quiet /\ TransportDrop
    \/ HandleConnectionState
    \/ RefreshLabels
    \/ DriverListener
    \/ \E n \in AsyncNotifications : TransportNotifies(n)
    \/ \E l \in AsyncLists : TransportLabels(l)
    \/ RunTask

SpecAsync == Init /\ [][NextAsync]_vars

\* A command in flight while the connection changes: the Transport drops the
\* link at any time, also while power_on() is awaiting the executor.
NextFlight ==
    \/ Quiet /\ ConnectStart(1)
    \/ TransportOpens(1)
    \/ OpenFails(1)
    \/ OpenReturns(1)
    \/ ConnectSettled(1)
    \/ LabelsReturn(1)
    \/ TransportDrop
    \/ HandleConnectionState
    \/ RefreshLabels
    \/ DriverListener
    \/ power_on(1)
    \/ SendReturns(1)

SpecFlight == Init /\ [][NextFlight]_vars

\* Notifications that outlive the connection: the link drops while the tasks
\* of earlier notifications are still waiting.
LateNotifications ==
    [attr : {"device_status"}, value : {"Active"}]
    \cup [attr : {"is_alive"}, value : {None}]

NextLate ==
    \/ Quiet /\ ConnectStart(1)
    \/ TransportOpens(1)
    \/ OpenFails(1)
    \/ OpenReturns(1)
    \/ ConnectSettled(1)
    \/ LabelsReturn(1)
    \/ TransportDrop
    \/ HandleConnectionState
    \/ RefreshLabels
    \/ DriverListener
    \/ \E n \in LateNotifications : TransportNotifies(n)
    \/ RunTask

SpecLate == Init /\ [][NextLate]_vars

\* The telemetry of a device.py session, one notification at a time.
NextTelemetry ==
    \/ Quiet /\ ConnectStart(1)
    \/ TransportOpens(1)
    \/ OpenFails(1)
    \/ OpenReturns(1)
    \/ Quiet /\ TransportDrop
    \/ HandleConnectionState
    \/ RefreshLabels
    \/ DriverListener
    \/ Quiet /\ \E n \in TelemetryNotifications : TransportNotifies(n)
    \/ RunTask

SpecTelemetry == InitRemote /\ [][NextTelemetry]_vars

\* The remote subscribes to and unsubscribes from the entities of the
\* configured devices while the first session (a device.py one, as the driver
\* constructs them) is connected and disconnected.
NextUnsub ==
    \/ Quiet /\ \E id \in DeviceIds : on_device_added(id)
    \/ Quiet /\ \E e \in Entities : on_subscribe_entities(e)
    \/ Settled /\ \E ids \in (SUBSET Entities) \ {{}} : on_unsubscribe_entities(ids)
    \/ UnsubResumes
    \/ Quiet /\ ConnectStart(1)
    \/ \E c \in CallIds : TransportOpens(c)
    \/ \E c \in CallIds : OpenFails(c)
    \/ \E c \in CallIds : OpenReturns(c)
    \/ \E c \in CallIds : TransportCloses(c)
    \/ \E c \in CallIds : CloseFails(c)
    \/ \E c \in CallIds : CloseReturns(c)
    \/ HandleConnectionState
    \/ RefreshLabels
    \/ DriverListener

SpecUnsub == InitRemote /\ [][NextUnsub]_vars

\* Devices are removed from the configuration and added again while the
\* first session is connected, is notified and emits its events.
NextRemoved ==
    \/ Quiet /\ \E id \in DeviceIds : on_device_added(id)
    \/ \E device \in DeviceIds \cup {None} : on_device_removed(device)
    \/ Quiet /\ ConnectStart(1)
    \/ TransportOpens(1)
    \/ OpenFails(1)
    \/ OpenReturns(1)
    \/ TransportDrop
    \/ HandleConnectionState
    \/ RefreshLabels
    \/ DriverListener
    \/ \E n \in LateNotifications : TransportNotifies(n)
    \/ RunTask

SpecRemoved == InitRemote /\ [][NextRemoved]_vars

\* The registry under its operations: sessions are registered and
\* unregistered, the registry is cleared, while a connect_all or a
\* disconnect_all walks it and the first session handles its calls.
NextRegistry ==
    \/ Settled /\ \E id \in DeviceIds : register_device(id)
    \/ Settled /\ \E id \in DeviceIds : unregister_device(id)
    \/ Settled /\ \E id \in DeviceIds : on_device_added(id)
    \/ Settled /\ setup_aborted
    \/ Settled /\ connect_all
    \/ Settled /\ disconnect_all
    \/ WalkResumes
    \/ \E c \in CallIds : TransportOpens(c)
    \/ \E c \in CallIds : OpenFails(c)
    \/ \E c \in CallIds : OpenReturns(c)
    \/ \E c \in CallIds : ConnectSettled(c)
    \/ \E c \in CallIds : LabelsReturn(c)
    \/ \E c \in CallIds : TransportCloses(c)
    \/ \E c \in CallIds : CloseFails(c)
    \/ \E c \in CallIds : CloseReturns(c)
    \/ HandleConnectionState
    \/ RefreshLabels
    \/ DriverListener

SpecRegistry == Init /\ [][NextRegistry]_vars

\* ------------------------------------------------------------------ claims
\* A disconnect() is awaiting the Transport's close().
Closing(c) == calls[c].pc \in {"close", "closed"}
\* A connect() is awaiting the Transport's open().
Opening(c) == calls[c].pc \in {"open", "opened"}

\* C1: disconnect() is idempotent: a disconnect() issued while another one is
\* still awaiting the Transport close does not close the Transport again (it is
\* a no-op), so two disconnect() calls close the Transport at most once.
C1_DisconnectIdempotent ==
    [][\A c \in CallIds :
          (DisconnectStart(c) /\ \E d \in CallIds : Closing(d))
             => (calls'[c].closes = 0 /\ calls'[c].pc = "done")]_vars

\* The connection state of section 4.1, read off the session: Disconnecting
\* while a disconnect() awaits close(), else Connected when the connected flag
\* is set, else Connecting while a connect() awaits open(), else Disconnected.
ConnState ==
    CASE \E c \in CallIds : Closing(c) -> "Disconnecting"
      [] _connected -> "Connected"
      [] \E c \in CallIds : Opening(c) -> "Connecting"
      [] OTHER -> "Disconnected"

StateMachine ==
    {<<"Disconnected", "Connecting">>, <<"Connecting", "Connected">>,
     <<"Connected", "Disconnecting">>, <<"Disconnecting", "Disconnected">>,
     <<"Connecting", "Disconnected">>, <<"Connected", "Disconnected">>}

\* C2: the connection state is always one of the four states and every change
\* of it is an edge of the state machine Disconnected -> Connecting ->
\* Connected -> Disconnecting -> Disconnected (plus Connecting -> Disconnected
\* and Connected -> Disconnected).
C2_StateMachine ==
    [][ConnState' # ConnState => <<ConnState, ConnState'>> \in StateMachine]_vars

\* C3: connect() on a Connected session returns True without calling open()
\* and changes neither the session's state nor the Transport's.
C3_ConnectWhenConnected ==
    [][\A c \in CallIds :
          (ConnectStart(c) /\ _connected)
             => /\ calls'[c].pc = "done" /\ calls'[c].res = "True"
                /\ calls'[c].opens = 0
                /\ UNCHANGED <<sessionVars, transportVars, evQ>>]_vars

\* C3 witness: a connect() has returned True without an open() while the
\* session is connected.
C3_Witness ==
    \E c \in CallIds :
        /\ calls[c].op = "connect" /\ calls[c].pc = "done"
        /\ calls[c].res = "True" /\ calls[c].opens = 0
        /\ _connected

\* The step in which connect() returns True.
ConnectReturnsTrue(c) ==
    /\ ConnectStart(c) \/ OpenReturns(c) \/ ConnectSettled(c) \/ LabelsReturn(c)
    /\ calls'[c].pc = "done" /\ calls'[c].res = "True"

\* C4: whenever connect() returns success the session is Connected at that
\* moment.
C4_ConnectedOnSuccess ==
    [][\A c \in CallIds : ConnectReturnsTrue(c) => _connected']_vars

\* C5: when open() times out or fails, connect() returns False, the session
\* is Disconnected, and that connect() called open() exactly once.
C5_FailedOpen ==
    [][\A c \in CallIds :
          OpenFails(c)
             => /\ calls'[c].pc = "done" /\ calls'[c].res = "False"
                /\ calls'[c].opens = 1
                /\ ~_connected' /\ ConnState' = "Disconnected"]_vars

\* C5 witness: a connect() has returned False after one open() that timed out.
C5_Witness ==
    /\ calls[1].op = "connect" /\ calls[1].pc = "done" /\ calls[1].res = "False"
    /\ calls[1].arg = "TimeoutError" /\ calls[1].opens = 1
    /\ ~_connected

\* C6: once disconnect() has run (close() returned or raised), the session is
\* Disconnected.
C6_DisconnectedAfterDisconnect ==
    [][\A c \in CallIds :
          (CloseReturns(c) \/ CloseFails(c)) => ~_connected']_vars

\* The events the step appended to the session's event queue.
Emitted == IF Len(evQ') >= Len(evQ) THEN SubSeq(evQ', Len(evQ) + 1, Len(evQ')) ELSE <<>>

\* C7: when the Transport reports DISCONNECTED the session becomes
\* Disconnected, its liveness flag false, its cached power state Unknown, and
\* an "unavailable" state delta is emitted towards the published attributes.
C7_DisconnectedResets ==
    [][(HandleConnectionState /\ Head(notifQ) = "DISCONNECTED")
          => /\ ~_connected' /\ ~_is_alive'
             /\ current_status' = "unknown"
             /\ \E i \in 1..Len(Emitted) :
                   /\ Emitted[i].ev = "UPDATE" /\ Emitted[i].attr = "state"
                   /\ Emitted[i].value = "UNAVAILABLE"]_vars

\* C8: power_on() with the cached power state Active hands nothing to the
\* Transport and returns OK.
C8_PowerOnWhenActive ==
    [][\A c \in CallIds :
          (power_on(c) /\ current_status = "Active")
             => /\ calls'[c].pc = "done" /\ calls'[c].res = "OK"
                /\ calls'[c].sends = 0
                /\ UNCHANGED transportVars]_vars

\* C8 witness: on a connected session whose power state is Active a power_on()
\* has returned OK without a send.
C8_Witness ==
    /\ calls[1].op = "power_on" /\ calls[1].arg = "Active"
    /\ calls[1].pc = "done" /\ calls[1].res = "OK" /\ calls[1].sends = 0
    /\ _connected

C10_SelectSourceRejects ==
    [][\A c \in CallIds : \A source \in SourceNames :
          (select_source(c, source)
           /\ (~Truthy(source) \/ ~Contains(_source_list, source)))
             => /\ calls'[c].pc = "done" /\ calls'[c].res = "BAD_REQUEST"
                /\ calls'[c].sends = 0
                /\ UNCHANGED <<last_op, _active_source>>]_vars

\* C11: select_source(name) with a name that is in the source list hands the
\* Transport exactly one input operation whose number is the 0-based position
\* of the name in the source list, and the call goes on to await it.
C11_SelectSourceIndex ==
    [][\A c \in CallIds : \A source \in SourceNames :
          (select_source(c, source)
           /\ Truthy(source) /\ Contains(_source_list, source))
             => /\ calls'[c].sends = 1 /\ calls'[c].pc = "send"
                /\ last_op' = [name |-> "input",
                               arg |-> IndexOf(_source_list, source)]]_vars

\* A call of one of the operations that need a live connection.
NeedsConnection(c) ==
    \/ power_on(c) \/ power_off(c) \/ power_toggle(c)
    \/ \E source \in SourceNames : select_source(c, source)

\* C12: power_on, power_off, power_toggle and select_source called while the
\* session is not connected return SERVICE_UNAVAILABLE and hand nothing to the
\* Transport.
C12_NotConnectedFailsFast ==
    [][\A c \in CallIds :
          (NeedsConnection(c) /\ ~_connected)
             => /\ calls'[c].pc = "done"
                /\ calls'[c].res = "SERVICE_UNAVAILABLE"
                /\ calls'[c].sends = 0
                /\ UNCHANGED transportVars]_vars

\* The event loop runs the handler of a notification of attribute `attr`.
Handles(attr) == RunTask /\ Head(taskQ).attr = attr

\* The input number of the notification being handled lies in 1..len(list).
InRange(value) ==
    /\ value \in {"0", "1", "2", "3"}
    /\ 1 <= IntOf[value] /\ IntOf[value] <= Len(_source_list)

\* The source deltas among the events of the step.
SourceDeltas ==
    SelectSeq(Emitted, LAMBDA e : e.ev = "UPDATE" /\ e.attr = "source")

C14_BadInputDropped ==
    [][(Handles("physical_input_selected") /\ ~InRange(Head(taskQ).value))
          => /\ Emitted = <<>>
             /\ UNCHANGED _active_source
             /\ taskQ' = Tail(taskQ)]_vars

\* C15: in every reachable state the active source is None or an element of
\* the source list.
C15_ActiveSourceInList ==
    _active_source = None \/ Contains(_source_list, _active_source)

\* The PowerStateEnum member a device_status value parses to.
ParseStatus(value) ==
    IF value \in {"Active", "Standby"} THEN value ELSE "unknown"

\* C16: the cached power state starts Unknown, every device_status
\* notification sets it to the parse of its value, and no other step (command,
\* connect, disconnect, other notification) changes it.
C16_PowerStateFrame ==
    /\ current_status = "unknown"
    /\ [][/\ Handles("device_status")
                => current_status' = ParseStatus(Head(taskQ).value)
          /\ current_status' # current_status => Handles("device_status")]_vars

\* C16 witness: the power state Active has outlived the disconnection of the
\* session.
C16_Witness ==
    /\ current_status = "Active"
    /\ ~_connected /\ _attr_state = "UNAVAILABLE" /\ link = "down"

\* C17: a device_status notification whose value is no PowerStateEnum member
\* sets the cached power state to Unknown and the device state to UNKNOWN, and
\* the handler ends normally.
C17_UnparseableStatus ==
    [][(Handles("device_status") /\ Head(taskQ).value \notin PowerStates)
          => /\ current_status' = "unknown"
             /\ _attr_state' = "UNKNOWN"
             /\ taskQ' = Tail(taskQ)]_vars

\* C17 witness: after Active was published, a value outside the enum has set
\* the device state to UNKNOWN; nothing was emitted, so the remote entity
\* still holds ON.
C17_Witness ==
    /\ current_status = "unknown" /\ _attr_state = "UNKNOWN"
    /\ remote_state = "ON"
    /\ evQ = <<>> /\ taskQ = <<>>

\* The state deltas a device_status value yields, one per entity.
StateDeltas(state) ==
    <<Update("media_player", "state", state), Update("remote", "state", state)>>

\* The driver's listener runs for the remote entity's state delta `state`.
RemoteDelta(state) ==
    /\ DriverListener
    /\ Head(evQ) = Update("remote", "state", state)

\* C18 as stated: on a connected device.py session a device_status of Active
\* emits one state=ON delta per entity and the published state becomes ON; a
\* device_status of Standby likewise yields state=STANDBY.
C18_StatePublishedOnce ==
    [][/\ (Handles("device_status") /\ variant = "device" /\ _connected
           /\ Head(taskQ).value \in {"Active", "Standby"})
             => Emitted = StateDeltas(AttrStateOf(Head(taskQ).value))
       /\ \A state \in {"ON", "STANDBY"} :
             RemoteDelta(state) => remote_state' = state]_vars

\* C18 amended: the session emits one state delta per entity, ON for Active
\* and STANDBY for Standby; the remote entity's published state becomes ON for
\* ON and OFF for STANDBY, and is published only when it differs from the
\* state the entity holds.
C18_StatePublishedMapped ==
    [][/\ (Handles("device_status") /\ variant = "device" /\ _connected
           /\ Head(taskQ).value \in {"Active", "Standby"})
             => Emitted = StateDeltas(AttrStateOf(Head(taskQ).value))
       /\ RemoteDelta("ON")
             => /\ remote_state' = "ON"
                /\ api_update' = IF remote_state = "ON" THEN None ELSE "ON"
       /\ RemoteDelta("STANDBY")
             => /\ remote_state' = "OFF"
                /\ api_update' = IF remote_state = "OFF" THEN None ELSE "OFF"]_vars

\* C18 witness: on a connected session the remote entity holds OFF, published
\* for a device_status of Standby.
C18_Witness ==
    /\ variant = "device" /\ _connected
    /\ current_status = "Standby" /\ _attr_state = "STANDBY"
    /\ remote_state = "OFF" /\ api_update = "OFF"

\* C19: for every member of SimpleCommands, a send_cmd request carrying its
\* display name ("1.85" for ASPECT_1_85) resolves to the same executor method
\* and parameter as one carrying its value (source_aspect_1_85), and what it
\* hands to the Transport is that method.
C19_DisplayNameResolves ==
    [][\A c \in CallIds : \A m \in SimpleCommands :
          command(c, "send_cmd", display_name(m.name))
             => /\ Resolve(display_name(m.name)) = Resolve(m.value)
                /\ calls'[c].sends = 1
                      => last_op'.name = Resolve(m.value).actual_cmd]_vars

\* The request is a send_cmd that carries a command name.
SendsSimple(c, simple_cmd) ==
    /\ command(c, "send_cmd", simple_cmd)
    /\ EffectiveCmdId("send_cmd", simple_cmd) = "send_cmd"
    /\ Truthy(simple_cmd)

\* C20: a send_cmd request is resolved by the values of SimpleCommands first,
\* then by their display names; a name that is neither returns NOT_FOUND and
\* nothing is handed to the Transport.
C20_ResolutionOrder ==
    [][\A c \in CallIds : \A simple_cmd \in SimpleCmds :
          SendsSimple(c, simple_cmd)
             => IF simple_cmd \in Values
                THEN Resolve(simple_cmd).status # "NOT_IMPLEMENTED"
                ELSE IF simple_cmd \in simple_commands
                THEN \E m \in SimpleCommands :
                        /\ display_name(m.name) = simple_cmd
                        /\ Resolve(simple_cmd) = Resolve(m.value)
                ELSE /\ calls'[c].pc = "done" /\ calls'[c].res = "NOT_FOUND"
                     /\ calls'[c].sends = 0
                     /\ UNCHANGED transportVars]_vars

\* C21: every request to the remote's command() ends with one of the status
\* codes: it never ends with an exception and never returns another value.
C21_AlwaysStatus ==
    \A c \in CallIds :
        (calls[c].op \in {"command", "power_on", "power_off"}
         /\ calls[c].pc \in {"done", "raised"})
           => (calls[c].pc = "done" /\ calls[c].res \in StatusCodes)

\* Two task queues hold the same notifications in the same order.
SameTasks(p, q) ==
    /\ Len(p) = Len(q)
    /\ \A i \in 1..Len(p) : p[i].attr = q[i].attr /\ p[i].value = q[i].value

\* Two event queues hold the same events in the same order.
SameEvents(p, q) ==
    /\ Len(p) = Len(q)
    /\ \A i \in 1..Len(p) :
          /\ p[i].ev = q[i].ev /\ p[i].entity = q[i].entity
          /\ p[i].attr = q[i].attr /\ p[i].value = q[i].value

\* C22: deltas reach the sink in the order of the notifications they come
\* from.  A notification joins the end of the waiting tasks; the task that
\* runs is the oldest one and its deltas join the end of the emitted events;
\* the sink takes the oldest emitted event; nothing else reorders the two.
C22_DeltasInOrder ==
    [][/\ Len(taskQ') >= Len(taskQ) =>
              SameTasks(SubSeq(taskQ', 1, Len(taskQ)), taskQ)
       /\ Len(taskQ') < Len(taskQ) =>
              /\ SameTasks(taskQ', Tail(taskQ))
              /\ SameEvents(Emitted, Deltas(Head(taskQ)))
       /\ Len(evQ') >= Len(evQ) =>
              SameEvents(SubSeq(evQ', 1, Len(evQ)), evQ)
       /\ Len(evQ') < Len(evQ) => SameEvents(evQ', Tail(evQ))]_vars

\* The deltas of two notifications wait for the sink, both on their way.
C22_Witness ==
    /\ variant = "device"
    /\ Len(evQ) = 2
    /\ evQ[1].attr = "source_list" /\ evQ[2].attr = "source_list"
    /\ evQ[1].value # evQ[2].value

\* C23: a device.py send that completes after the session has left Connected
\* does not give its caller OK.
C23_LateResultDiscarded ==
    [][\A c \in CallIds :
          (variant = "device" /\ SendReturns(c) /\ ~_connected)
             => calls'[c].res # "OK"]_vars

\* C24: a device.py send that the Transport fails ends with a failure status
\* for its caller, and the failure changes neither the connected flag nor the
\* published connection state.
C24_SendFailureIsStatus ==
    [][\A c \in CallIds : \A outcome \in Outcomes \ {"ok"} :
          (variant = "device" /\ SendEnds(c, outcome))
             => /\ calls'[c].pc = "done"
                /\ calls'[c].res \in StatusCodes \ {"OK"}
                /\ UNCHANGED <<_connected, api_device_state>>]_vars

\* C25: handling an input_labels notification makes the session's source
\* list the sequence the notification carries, and hands no operation (no
\* label fetch) to the Transport.
C25_LabelsReplaceList ==
    [][Handles("input_labels")
          => /\ _source_list' = Head(taskQ).value
             /\ UNCHANGED last_op]_vars

\* C26: handling an is_alive notification sets the liveness flag and nothing
\* else: no event is emitted, and the connected flag, the power state, the
\* device state, the source list and the active source keep their values.
C26_IsAliveFrame ==
    [][Handles("is_alive")
          => /\ _is_alive'
             /\ UNCHANGED <<evQ, _connected, current_status, _attr_state,
                            _source_list, _active_source>>]_vars

\* C26 witness: the liveness flag is set on a connected session whose power
\* state and source are known.
C26_Witness ==
    /\ _is_alive /\ taskQ = <<>>
    /\ _connected /\ current_status = "Standby" /\ _active_source # None

\* C27: handling a telemetry notification emits exactly one delta: the
\* decimal string of the reported value, as the attribute `value` of a sensor
\* entity that no other telemetry field is published to; the session's fields
\* keep their values.
C27_TelemetryOneDelta ==
    [][\A field \in TelemetryFields :
          Handles(field)
             => /\ Len(Emitted) = 1
                /\ Emitted[1].ev = "UPDATE" /\ Emitted[1].attr = "value"
                /\ Emitted[1].value \in DOMAIN IntOf
                /\ IntOf[Emitted[1].value] = Head(taskQ).value
                /\ Emitted[1].entity \notin {"media_player", "remote"}
                /\ \A other \in TelemetryFields \ {field} :
                      Emitted[1].entity # SensorPrefix(other)
                /\ UNCHANGED sessionVars]_vars

\* C27 witness: the delta of a source_vertical_rate notification waits for
\* the sink.
C27_Witness ==
    /\ evQ # <<>>
    /\ Head(evQ).entity = "input_rate" /\ Head(evQ).attr = "value"
    /\ Head(evQ).value = "2"

\* C28: whatever the outcome of the label fetch that follows a successful
\* open, connect() returns success and the connected flag keeps its value.
C28_RefreshFireAndForget ==
    [][\A c \in CallIds :
          LabelsReturn(c)
             => /\ calls'[c].pc = "done" /\ calls'[c].res = "True"
                /\ UNCHANGED _connected]_vars

\* The open() of the running connect() has failed.
OpenFailed ==
    \E c \in CallIds :
        /\ calls[c].op = "connect" /\ calls[c].pc = "done"
        /\ calls[c].arg \in {"OSError", "TimeoutError"}

\* C29: whenever a connect() has started to open the Transport for a session
\* that is not connected, whatever connects, disconnects and drops came
\* before, the session eventually is connected, unless that open() fails.
C29_Reconnects ==
    (\E c \in CallIds :
        calls[c].op = "connect" /\ calls[c].pc = "open" /\ ~_connected)
    ~> (_connected \/ OpenFailed)

\* C29 witness: a session that has been disconnected before is connected
\* again by a connect() that returned True.
C29_Witness ==
    /\ _connected /\ link = "up" /\ _attr_state = "UNAVAILABLE"
    /\ calls[1].op = "connect" /\ calls[1].res = "True"

\* The operation a value of SimpleCommands stands for: send_n for the number
\* n, the value itself otherwise.
CanonicalOp(token) ==
    CASE token = "5" -> "send_5"
      [] token = "10" -> "send_10"
      [] OTHER -> token

\* C30: a send_cmd request whose name is a value of SimpleCommands hands at
\* most one operation to the Transport: send_n when the name is the number n,
\* the operation of the same name otherwise.
C30_NumbersToSendN ==
    [][\A c \in CallIds : \A token \in Values :
          SendsSimple(c, token)
             => IF calls'[c].pc = "send"
                THEN calls'[c].sends = 1 /\ last_op'.name = CanonicalOp(token)
                ELSE calls'[c].sends = 0 /\ UNCHANGED last_op]_vars

\* C30 witness: the request for "10" is awaiting the executor's send_10.
C30_Witness ==
    /\ calls[1].op = "command" /\ calls[1].arg = "10"
    /\ calls[1].pc = "send" /\ last_op.name = "send_10"

\* C31: the send_cmd "input" of a connected session hands input(i) to the
\* Transport, i being the 0-based position of the active source in the source
\* list; when the active source is None or not in the list the request
\* returns BAD_REQUEST and hands nothing to the Transport.
C31_InputFromActiveSource ==
    [][\A c \in CallIds :
          SendsSimple(c, "input")
             => IF \E i \in 1..Len(_source_list) : _source_list[i] = _active_source
                THEN _connected
                        => /\ calls'[c].pc = "send" /\ calls'[c].sends = 1
                           /\ last_op'.name = "input"
                           /\ last_op'.arg \in 0..(Len(_source_list) - 1)
                           /\ _source_list[last_op'.arg + 1] = _active_source
                ELSE /\ calls'[c].pc = "done" /\ calls'[c].res = "BAD_REQUEST"
                     /\ calls'[c].sends = 0 /\ UNCHANGED last_op]_vars

\* C31 witness: the request "input" is awaiting input(1), the active source
\* being the second of the list.
C31_Witness ==
    /\ calls[1].op = "command" /\ calls[1].arg = "input" /\ calls[1].pc = "send"
    /\ last_op = [name |-> "input", arg |-> 1]
    /\ Len(_source_list) = 2 /\ _source_list[2] = _active_source

\* C36: at most one open() of the Transport is in flight at any time, also
\* when a second connect() starts while the first one is awaiting its open().
C36_OneOpenInFlight ==
    \A c, d \in CallIds : (Opening(c) /\ Opening(d)) => c = d

\* C38: the label fetch that ends the settle delay of the CONNECTED handler
\* is handed to the Transport only when the session is still connected.
C38_RefreshOnlyIfConnected ==
    [][RefreshLabels => _connected]_vars

\* C40: a disconnect() that starts while the session is connected, the link
\* is up and no other disconnect() is awaiting close() calls close(),
\* whatever connects, disconnects and notifications came before.
C40_GuardDoesNotStick ==
    [][\A c \in CallIds :
          (/\ DisconnectStart(c)
           /\ _connected /\ link = "up"
           /\ \A d \in CallIds : ~Closing(d))
             => calls'[c].pc = "close"]_vars

\* C37: once a device.py session has handled the DISCONNECTED notification
\* (it is not connected and its device state is UNAVAILABLE), every step that
\* leaves it not connected leaves the device state UNAVAILABLE and the
\* liveness flag false.
C37_UnavailableUntilConnected ==
    [][(/\ variant = "device"
        /\ ~_connected /\ _attr_state = "UNAVAILABLE" /\ ~_is_alive
        /\ ~_connected')
          => (_attr_state' = "UNAVAILABLE" /\ ~_is_alive')]_vars

\* C32: the registry holds at most one session per device id; registering or
\* configuring an id that is registered leaves the session registered for
\* it, and every other one, as it was; after unregister_device the id has no
\* session, and neither has any id after the registry was cleared.
C32_OneSessionPerId ==
    /\ [](\A i, j \in 1..Len(registry) :
            (LiveAt(i) /\ LiveAt(j) /\ registry[i].id = registry[j].id) => i = j)
    /\ [][\A id \in DeviceIds :
            /\ ((register_device(id) \/ on_device_added(id)) /\ Registered(id))
                  => /\ get_controller(id)' = get_controller(id)
                     /\ Sessions' = Sessions
            /\ unregister_device(id)
                  => /\ get_controller(id)' = 0
                     /\ \A other \in DeviceIds \ {id} :
                           get_controller(other)' = get_controller(other)
            /\ setup_aborted => get_controller(id)' = 0]_vars

\* C32 witness: a second session object was constructed and the registry
\* still holds the first one alone.
C32_Witness ==
    /\ created = 2
    /\ Len(registry) = 1 /\ LiveAt(1)
    /\ registry[1] = [id |-> ThisDevice, obj |-> 1, live |-> TRUE]

\* C39: a connect_all or disconnect_all never ends with the RuntimeError of
\* its iterator, and one that has completed has visited every session that
\* was registered when it started.
C39_WalkCompletes ==
    /\ walk.error # "RuntimeError"
    /\ walk.pc = "done" => walk.start \subseteq walk.visited

\* The devices with a session whose configured entities are all among the
\* unsubscribed ones, and at least one is.
Unused(entity_ids, cfg, reg) ==
    {id \in reg : /\ \E e \in cfg : e.dev = id /\ e \in entity_ids
                  /\ \A e \in cfg : e.dev = id => e \in entity_ids}

\* The handler has ended in this step.
UnsubEnded == unsub.pc \in {"done", "raised"}

\* C33: when on_unsubscribe_entities has ended, the sessions it has called
\* disconnect() on are those of the devices that no configured entity other
\* than the unsubscribed ones belongs to: a device with a remaining entity is
\* left alone, every other device of an unsubscribed entity is disconnected.
C33_DisconnectsUnusedOnly ==
    [][/\ \A entity_ids \in (SUBSET Entities) \ {{}} :
            (on_unsubscribe_entities(entity_ids) /\ UnsubEnded')
               => unsub'.closed = Unused(entity_ids, configured,
                                         {id \in DeviceIds : Registered(id)})
       /\ (UnsubResumes /\ UnsubEnded')
               => unsub'.closed = Unused(unsub.ids, unsub.cfg, unsub.reg)]_vars

\* C34: on_device_removed returns without an error; for a device it leaves
\* the device without a registered session, without a device it leaves the
\* registry empty.
C34_RemovalUnregisters ==
    [][\A device \in DeviceIds \cup {None} :
          on_device_removed(device)
             => /\ removal'.ended = "returned"
                /\ IF device = None THEN Used' = 0 ELSE ~Registered(device)']_vars

\* C35: the listener of an UPDATE event that runs while the session's device
\* id is not registered, or the event's entity is not configured, publishes
\* nothing and leaves the entity's state as it is.
C35_LateUpdatesDropped ==
    [][(/\ DriverListener
        /\ Head(evQ).ev = "UPDATE"
        /\ \/ ~Registered(ThisDevice)
           \/ EntityId(Head(evQ).entity, ThisDevice) \notin configured)
          => (api_update' = None /\ UNCHANGED remote_state)]_vars

\* C35 witness: the session has reported ON to its listeners after its device
\* left the registry; every event has been handled and the remote entity
\* does not show ON.
C35_Witness ==
    /\ ~Registered(ThisDevice)
    /\ _attr_state = "ON" /\ remote_state # "ON"
    /\ evQ = <<>> /\ taskQ = <<>>

=============================================================================
